---------------------------- MODULE Spec2Model ----------------------------
(***************************************************************************)
(* A model of chessfluff's rate-limited HTTP client                        *)
(* (src/src/chessfluff/requester.py) and of the opening-enrichment script  *)
(* (src/scripts/process_openings.py).                                      *)
(*                                                                         *)
(* Time is counted in tenths of a second.                                  *)
(***************************************************************************)
EXTENDS Integers, Sequences, FiniteSets, TLC

VARIABLES
    \* ---- Requester (requester.py) ----
    rate_limited,               \* self.rate_limited
    rate_limit_attempts,        \* self.rate_limit_attempts
    rate_limit_last_timestamp,  \* self.rate_limit_last_timestamp
    response_json,              \* self.response_json
    success,                    \* self.success (FALSE while the attribute is not yet set)
    status_code,                \* self.status_code (0 while the attribute is not yet set)
    now,                        \* time.time()
    pc,                         \* position inside get_json / _get
    attempt,                    \* iterations of the for loop of _get started so far
    r,                          \* local r of _get: Unbound, or the last response
    ret,                        \* how the last get_json call ended
    ncalls,                     \* get_json calls started on this client
    previous,                   \* how the get_json call before the current one ended
    outcomes,                   \* outcomes of the current call's network requests, in order
    \* ---- process_openings.py ----
    catalogue,                  \* df["epd"]: the epd of each input row, in input order
    mpc,                        \* position inside main / get_lichess_stats
    idx,                        \* rows done in the current loop
    evals,                      \* df["eval"] as far as it has been computed
    engine,                     \* the Stockfish object: "created", "entered" or "exited"
    trace,                      \* the calls made so far, in order
    master_stats,               \* local master_stats of get_lichess_stats
    lichess_game_stats,         \* local lichess_game_stats of get_lichess_stats
    results,                    \* local results of get_lichess_stats
    output,                     \* the rows written by df.to_csv
    pct                         \* the last direct call of calc_percentage

reqVars == <<rate_limited, rate_limit_attempts, rate_limit_last_timestamp,
             response_json, success, status_code, now, pc, attempt, r, ret,
             ncalls, previous, outcomes>>

mainVars == <<catalogue, mpc, idx, evals, engine, trace, master_stats,
              lichess_game_stats, results, output, pct>>

vars == <<reqVars, mainVars>>

-----------------------------------------------------------------------------
(* Bounds of the model *)

MaxAttempts == 3    \* largest retry budget a client is constructed with
MaxCalls == 2       \* get_json calls made on one client
MaxRecords == 2     \* rows of the input catalogue
MaxEpds == 2        \* distinct positions the rows are drawn from
MaxGames == 3       \* largest counter in a statistics answer

(* Program constants *)

TOO_MANY_REQUESTS == 429          \* httpx.codes.TOO_MANY_REQUESTS
OK == 200                         \* httpx.codes.OK
DefaultRateLimitAttempts == 3     \* rate_limit_attempts: int = 3
DefaultRateLimitTimeout == 601    \* rate_limit_timeout: float = 60.1 (tenths of a second)

-----------------------------------------------------------------------------
(* Mappings (Python dicts with string keys) *)

EmptyMap == [k \in {} |-> 0]

\* The bodies a server may send with a 200 response.
BodyTexts == {"<html>", "{}", "{white:4,black:3,draws:3}", "{white:1,black:1,draws:1}"}

\* Response.json(): whether the body decodes (else httpx.DecodingError or
\* JSONDecodeError is raised), and what it decodes to.
Decodable(body) == body \in {"{}", "{white:4,black:3,draws:3}", "{white:1,black:1,draws:1}"}

json(body) ==
    CASE body = "{}" -> EmptyMap
      [] body = "{white:4,black:3,draws:3}" -> [white |-> 4, black |-> 3, draws |-> 3]
      [] body = "{white:1,black:1,draws:1}" -> [white |-> 1, black |-> 1, draws |-> 1]

\* The local r of _get before its first assignment, and the None _get returns.
Unbound == [status |-> 0, body |-> "unbound"]
None == [status |-> 0, body |-> "None"]

\* What one self._client.get(...) can do: raise httpx.RequestError, or answer.
ErrorStatuses == {404, 500}
Responses ==
    [status : {OK}, body : BodyTexts]
        \cup [status : {TOO_MANY_REQUESTS} \cup ErrorStatuses, body : {""}]
RequestError == [status |-> 0, body |-> "RequestError"]

\* Seconds that pass while a request is in flight or between two calls.
Elapsed == {0, 300, DefaultRateLimitTimeout}

\* How a call ended: not yet, with a returned value, or with an exception.
NotCalled == [kind |-> "none", val |-> EmptyMap, exc |-> ""]
Returned(v) == [kind |-> "return", val |-> v, exc |-> ""]
Raised(e) == [kind |-> "raise", val |-> EmptyMap, exc |-> e]

-----------------------------------------------------------------------------
(* Requester *)

\* Requester.__init__: any retry budget up to MaxAttempts, default cooldown.
RequesterInit ==
    /\ rate_limited = FALSE
    /\ rate_limit_attempts \in 0..MaxAttempts
    /\ rate_limit_last_timestamp = 0
    /\ response_json = EmptyMap
    /\ success = FALSE
    /\ status_code = 0
    /\ now \in {1000}
    /\ pc = "idle"
    /\ attempt = 0
    /\ r = Unbound
    /\ ret = NotCalled
    /\ ncalls = 0
    /\ previous = NotCalled
    /\ outcomes = << >>

\* The test of `for _ in range(0, self.rate_limit_attempts)` (line 93), and a
\* variant that allows one iteration more.
LoopContinuesOffByOne == attempt <= rate_limit_attempts

LoopContinues == attempt < rate_limit_attempts

\* get_json up to the first loop test of _get (lines 67-68, 89-93). The variant
\* is without lines 67 and 89.
GetJsonCallNoReset ==
    /\ pc = "idle"
    /\ ncalls < MaxCalls
    /\ ncalls' = ncalls + 1
    /\ attempt' = 0
    /\ r' = Unbound
    /\ outcomes' = << >>
    /\ ret' = NotCalled
    /\ previous' = ret
    /\ \E d \in Elapsed : now' = now + d
    /\ pc' = IF rate_limit_attempts > 0 THEN "wait" ELSE "after_loop"
    /\ UNCHANGED <<rate_limited, rate_limit_attempts, rate_limit_last_timestamp,
                   status_code, response_json, success>>
    /\ UNCHANGED mainVars

GetJsonCall ==
    /\ pc = "idle"
    /\ ncalls < MaxCalls
    /\ ncalls' = ncalls + 1
    /\ response_json' = EmptyMap
    /\ success' = FALSE
    /\ attempt' = 0
    /\ r' = Unbound
    /\ outcomes' = << >>
    /\ ret' = NotCalled
    /\ previous' = ret
    /\ \E d \in Elapsed : now' = now + d
    /\ pc' = IF rate_limit_attempts > 0 THEN "wait" ELSE "after_loop"
    /\ UNCHANGED <<rate_limited, rate_limit_attempts, rate_limit_last_timestamp,
                   status_code>>
    /\ UNCHANGED mainVars

\* _wait_rate_limit_timeout (lines 118-130): the sleep ends when the cooldown has
\* passed since the last 429.
wait_time == DefaultRateLimitTimeout - (now - rate_limit_last_timestamp)

\* Variant: the remaining cooldown is not slept.
WaitRateLimitTimeoutNoSleep ==
    /\ pc = "wait"
    /\ attempt' = attempt + 1
    /\ IF ~rate_limited
         THEN UNCHANGED <<now, rate_limited>>
         ELSE /\ now' = now
              /\ rate_limited' = FALSE
    /\ pc' = "get"
    /\ UNCHANGED <<rate_limit_attempts, rate_limit_last_timestamp, response_json,
                   success, status_code, r, ret, ncalls, previous, outcomes>>
    /\ UNCHANGED mainVars

\* Variant: the flag is not reset after the wait.
WaitRateLimitTimeoutNoReset ==
    /\ pc = "wait"
    /\ attempt' = attempt + 1
    /\ IF ~rate_limited
         THEN UNCHANGED <<now, rate_limited>>
         ELSE /\ now' = IF wait_time > 0 THEN now + wait_time ELSE now
              /\ UNCHANGED rate_limited
    /\ pc' = "get"
    /\ UNCHANGED <<rate_limit_attempts, rate_limit_last_timestamp, response_json,
                   success, status_code, r, ret, ncalls, previous, outcomes>>
    /\ UNCHANGED mainVars

WaitRateLimitTimeout ==
    /\ pc = "wait"
    /\ attempt' = attempt + 1
    /\ IF ~rate_limited
         THEN UNCHANGED <<now, rate_limited>>
         ELSE /\ now' = IF wait_time > 0 THEN now + wait_time ELSE now
              /\ rate_limited' = FALSE
    /\ pc' = "get"
    /\ UNCHANGED <<rate_limit_attempts, rate_limit_last_timestamp, response_json,
                   success, status_code, r, ret, ncalls, previous, outcomes>>
    /\ UNCHANGED mainVars

\* The return of get_json (lines 70-77) for the value _get returned, a variant
\* without the except clause and a variant that never reads r.json().
GetJsonReturnEmpty(resp) == [json |-> response_json, ret |-> Returned(EmptyMap)]

GetJsonReturnNoCatch(resp) ==
    IF resp = None
      THEN [json |-> response_json, ret |-> Returned(response_json)]
      ELSE IF ~Decodable(resp.body)
             THEN [json |-> response_json, ret |-> Raised("JSONDecodeError")]
             ELSE [json |-> json(resp.body), ret |-> Returned(json(resp.body))]

GetJsonReturn(resp) ==
    IF resp = None
      THEN [json |-> response_json, ret |-> Returned(response_json)]
      ELSE IF ~Decodable(resp.body)
             THEN [json |-> response_json, ret |-> Returned(EmptyMap)]
             ELSE [json |-> json(resp.body), ret |-> Returned(json(resp.body))]

\* self._client.get raises httpx.RequestError (lines 96-100), get_json returns.
\* The variant goes on with the loop instead.
GetTransportErrorRetried ==
    /\ pc = "get"
    /\ outcomes' = Append(outcomes, RequestError)
    /\ \E d \in Elapsed : now' = now + d
    /\ pc' = IF LoopContinues THEN "wait" ELSE "after_loop"
    /\ UNCHANGED <<rate_limited, rate_limit_attempts, rate_limit_last_timestamp,
                   response_json, ret, success, status_code, attempt, r, ncalls, previous>>
    /\ UNCHANGED mainVars

GetTransportError ==
    /\ pc = "get"
    /\ outcomes' = Append(outcomes, RequestError)
    /\ \E d \in Elapsed : now' = now + d
    /\ response_json' = GetJsonReturn(None).json
    /\ ret' = GetJsonReturn(None).ret
    /\ pc' = "idle"
    /\ UNCHANGED <<rate_limited, rate_limit_attempts, rate_limit_last_timestamp,
                   success, status_code, attempt, r, ncalls, previous>>
    /\ UNCHANGED mainVars

\* self._client.get answers 429 (lines 97, 102-103, 132-135); next loop test.
\* The variant is _set_rate_limit_timeout without line 134.
GetTooManyRequestsNoFlag ==
    /\ pc = "get"
    /\ \E resp \in Responses :
         /\ resp.status = TOO_MANY_REQUESTS
         /\ r' = resp
         /\ outcomes' = Append(outcomes, resp)
    /\ \E d \in Elapsed : now' = now + d
    /\ rate_limit_last_timestamp' = now'
    /\ pc' = IF LoopContinues THEN "wait" ELSE "after_loop"
    /\ UNCHANGED <<rate_limited, rate_limit_attempts, response_json, success,
                   status_code, attempt, ret, ncalls, previous>>
    /\ UNCHANGED mainVars

GetTooManyRequests ==
    /\ pc = "get"
    /\ \E resp \in Responses :
         /\ resp.status = TOO_MANY_REQUESTS
         /\ r' = resp
         /\ outcomes' = Append(outcomes, resp)
    /\ \E d \in Elapsed : now' = now + d
    /\ rate_limited' = TRUE
    /\ rate_limit_last_timestamp' = now'
    /\ pc' = IF LoopContinues THEN "wait" ELSE "after_loop"
    /\ UNCHANGED <<rate_limit_attempts, response_json, success, status_code,
                   attempt, ret, ncalls, previous>>
    /\ UNCHANGED mainVars

\* self._client.get answers anything else (lines 97, 102, 104-105): break.
\* The variant has no break.
GetOtherNoBreak ==
    /\ pc = "get"
    /\ \E resp \in Responses :
         /\ resp.status # TOO_MANY_REQUESTS
         /\ r' = resp
         /\ outcomes' = Append(outcomes, resp)
    /\ \E d \in Elapsed : now' = now + d
    /\ pc' = IF LoopContinues THEN "wait" ELSE "after_loop"
    /\ UNCHANGED <<rate_limited, rate_limit_attempts, rate_limit_last_timestamp,
                   response_json, success, status_code, attempt, ret, ncalls, previous>>
    /\ UNCHANGED mainVars

GetOther ==
    /\ pc = "get"
    /\ \E resp \in Responses :
         /\ resp.status # TOO_MANY_REQUESTS
         /\ r' = resp
         /\ outcomes' = Append(outcomes, resp)
    /\ \E d \in Elapsed : now' = now + d
    /\ pc' = "after_loop"
    /\ UNCHANGED <<rate_limited, rate_limit_attempts, rate_limit_last_timestamp,
                   response_json, success, status_code, attempt, ret, ncalls, previous>>
    /\ UNCHANGED mainVars

\* After the loop of _get (lines 107-116) and the rest of get_json (lines 70-77).
\* With r never assigned, line 107 raises UnboundLocalError out of get_json.
AfterLoop ==
    /\ pc = "after_loop"
    /\ IF r = Unbound
         THEN /\ ret' = Raised("UnboundLocalError")
              /\ UNCHANGED <<status_code, success, response_json>>
         ELSE /\ status_code' = r.status
              /\ IF r.status # OK
                   THEN /\ UNCHANGED success
                        /\ response_json' = GetJsonReturn(None).json
                        /\ ret' = GetJsonReturn(None).ret
                   ELSE /\ success' = TRUE
                        /\ response_json' = GetJsonReturn(r).json
                        /\ ret' = GetJsonReturn(r).ret
    /\ pc' = "idle"
    /\ UNCHANGED <<rate_limited, rate_limit_attempts, rate_limit_last_timestamp,
                   now, attempt, r, ncalls, previous, outcomes>>
    /\ UNCHANGED mainVars

-----------------------------------------------------------------------------
(* Python floats (IEEE-754 binary64, round to nearest, ties to even), as far as *)
(* calc_percentage needs them: non-negative values m * 2^e with a 53-bit        *)
(* significand m.  Numbers too wide for a machine word are sequences of 18-bit  *)
(* limbs, most significant first, without leading zero limbs; << >> is 0.       *)

Precision == 53
Limb == [bits |-> 18, base |-> 262144]

Pow2(k) == 2 ^ k

RECURSIVE StripZeros(_)
StripZeros(x) == IF x # << >> /\ x[1] = 0 THEN StripZeros(Tail(x)) ELSE x

Front(x) == SubSeq(x, 1, Len(x) - 1)
Last(x) == x[Len(x)]

\* x * k + c for k below 2^12 and c below 2^30.
RECURSIVE MulSmallCarry(_, _, _)
MulSmallCarry(x, k, c) ==
    IF x = << >>
      THEN IF c = 0 THEN << >>
           ELSE IF c < Limb.base THEN <<c>>
           ELSE <<c \div Limb.base, c % Limb.base>>
      ELSE LET v == Last(x) * k + c
           IN  Append(MulSmallCarry(Front(x), k, v \div Limb.base), v % Limb.base)
MulSmall(x, k) == StripZeros(MulSmallCarry(x, k, 0))
NatToLimbs(n) == MulSmallCarry(<< >>, 0, n)

\* x + y + c for a carry c.
RECURSIVE AddCarry(_, _, _)
AddCarry(x, y, c) ==
    IF x = << >> /\ y = << >> THEN (IF c = 0 THEN << >> ELSE <<c>>)
    ELSE LET a == IF x = << >> THEN 0 ELSE Last(x)
             b == IF y = << >> THEN 0 ELSE Last(y)
             v == a + b + c
         IN  Append(AddCarry(IF x = << >> THEN x ELSE Front(x),
                             IF y = << >> THEN y ELSE Front(y), v \div Limb.base),
                    v % Limb.base)
AddLimbs(x, y) == AddCarry(x, y, 0)

\* x - y - c for x >= y + c.
RECURSIVE SubBorrow(_, _, _)
SubBorrow(x, y, c) ==
    IF x = << >> THEN << >>
    ELSE LET b == IF y = << >> THEN 0 ELSE Last(y)
             v == Last(x) - b - c
         IN  Append(SubBorrow(Front(x), IF y = << >> THEN y ELSE Front(y),
                              IF v < 0 THEN 1 ELSE 0),
                    IF v < 0 THEN v + Limb.base ELSE v)

LessLimbs(x, y) ==
    \/ Len(x) < Len(y)
    \/ /\ Len(x) = Len(y)
       /\ \E i \in 1..Len(x) :
            /\ x[i] < y[i]
            /\ \A j \in 1..(i - 1) : x[j] = y[j]
LeqLimbs(x, y) == x = y \/ LessLimbs(x, y)
AbsDiff(x, y) ==
    IF LessLimbs(x, y) THEN StripZeros(SubBorrow(y, x, 0))
    ELSE StripZeros(SubBorrow(x, y, 0))

\* The number of bits of a positive number.
WordBitLen(n) == CHOOSE k \in 1..31 : Pow2(k - 1) <= n /\ (k = 31 \/ n < Pow2(k))
BitLen(x) == IF x = << >> THEN 0 ELSE Limb.bits * (Len(x) - 1) + WordBitLen(x[1])

\* x * 2^k, and the whole part of x / 2^k.
ShiftLeft(x, k) ==
    LET t == k % Limb.bits
        y == <<0>> \o x \o <<0>>
        z == [i \in 1..(Len(x) + 1) |->
                (y[i] % Pow2(Limb.bits - t)) * Pow2(t) + (y[i + 1] \div Pow2(Limb.bits - t))]
    IN  IF x = << >> THEN << >>
        ELSE StripZeros(z \o [i \in 1..(k \div Limb.bits) |-> 0])
ShiftRight(x, k) ==
    LET t == k % Limb.bits
        n == Len(x) - (k \div Limb.bits)
        y == <<0>> \o x
        z == [i \in 1..n |-> (y[i + 1] \div Pow2(t)) + (y[i] % Pow2(t)) * Pow2(Limb.bits - t)]
    IN  IF n <= 0 THEN << >> ELSE StripZeros(z)

\* Bit i of x (bit 0 is the lowest), and whether any of the lowest k bits is set.
TestBit(x, i) ==
    LET j == Len(x) - (i \div Limb.bits)
    IN  IF j < 1 THEN 0 ELSE (x[j] \div Pow2(i % Limb.bits)) % 2
LowBitsSet(x, k) ==
    \E j \in 1..Len(x) :
        LET low == Limb.bits * (Len(x) - j)     \* the place of limb j's lowest bit
        IN  IF low + Limb.bits <= k THEN x[j] # 0
            ELSE IF low >= k THEN FALSE
            ELSE x[j] % Pow2(k - low) # 0

\* The float 0.0, a NaN, and the float nearest to x * 2^e (plus something below the
\* last bit of x when sticky), for x > 0.
Float0 == [m |-> << >>, e |-> 0]
NaN == [m |-> << >>, e |-> 1]

RoundToFloat(x, sticky, e) ==
    LET L == BitLen(x)
        sh == L - Precision
    IN  IF sh <= 0
          THEN [m |-> ShiftLeft(x, -sh), e |-> e + sh]
          ELSE LET keep == ShiftRight(x, sh)
                   rest == sticky \/ LowBitsSet(x, sh - 1)
                   up == TestBit(x, sh - 1) = 1 /\ (rest \/ TestBit(keep, 0) = 1)
                   inc == IF up THEN AddCarry(keep, << >>, 1) ELSE keep
               IN  IF BitLen(inc) > Precision
                     THEN [m |-> ShiftRight(inc, 1), e |-> e + sh + 1]
                     ELSE [m |-> inc, e |-> e + sh]

RECURSIVE ScaleUp(_, _, _)
ScaleUp(n, d, s) == IF n >= d THEN [v |-> n, s |-> s] ELSE ScaleUp(2 * n, d, s + 1)

\* Long division: k more limbs of the quotient of N / D for N < D, and the remainder.
RECURSIVE QuotientLimbs(_, _, _, _)
QuotientLimbs(N, D, k, acc) ==
    IF k = 0 THEN [q |-> acc, rem |-> N]
    ELSE QuotientLimbs((N * Limb.base) % D, D, k - 1,
                       Append(acc, (N * Limb.base) \div D))

\* int / int (true division) for 0 <= n, 0 < d and both below 2^13.
FloatDiv(n, d) ==
    IF n = 0 THEN Float0
    ELSE LET num == ScaleUp(n, d, 0)                   \* d <= num.v
             den == ScaleUp(d, (num.v \div 2) + 1, 0)  \* den.v <= num.v < 2 * den.v
             qr == QuotientLimbs(num.v - den.v, den.v, 3, <<1>>)
         IN  RoundToFloat(qr.q, qr.rem # 0, den.s - num.s - 3 * Limb.bits)

\* float * k for a whole float k below 2^12.
FloatMulInt(x, k) ==
    IF x = Float0 THEN Float0 ELSE RoundToFloat(MulSmall(x.m, k), FALSE, x.e)

\* float + float.
FloatAdd(x, y) ==
    IF x = Float0 THEN y
    ELSE IF y = Float0 THEN x
    ELSE LET e == IF x.e < y.e THEN x.e ELSE y.e
         IN  RoundToFloat(AddLimbs(ShiftLeft(x.m, x.e - e), ShiftLeft(y.m, y.e - e)),
                          FALSE, e)

\* The float of a whole number.
FloatOfInt(n) == IF n = 0 THEN Float0 ELSE RoundToFloat(NatToLimbs(n), FALSE, 0)

-----------------------------------------------------------------------------
(* process_openings.py: calc_percentage and the row of get_lichess_stats *)

\* dict.get(key, 0)
Get(map, key) == IF key \in DOMAIN map THEN map[key] ELSE 0

\* numerator / denominator * 100.0, with ZeroDivisionError caught (lines 123-129),
\* and a variant where the division by zero gives a NaN.
calc_percentageNoGuard(numerator, denominator) ==
    IF denominator = 0 THEN NaN
    ELSE FloatMulInt(FloatDiv(numerator, denominator), 100)

calc_percentage(numerator, denominator) ==
    IF denominator = 0 THEN Float0
    ELSE FloatMulInt(FloatDiv(numerator, denominator), 100)

\* The totals of lines 99 and 104, and a variant that leaves the draws out.
TotalGamesNoDraws(white, black, draws) == white + black

TotalGames(white, black, draws) == white + black + draws

\* One result of get_lichess_stats (lines 96-116).
StatsRow(epd, master, lichess) ==
    LET master_white_games == Get(master, "white")
        master_black_games == Get(master, "black")
        master_draw_games == Get(master, "draws")
        master_total_games ==
            TotalGames(master_white_games, master_black_games, master_draw_games)
        lichess_white_games == Get(lichess, "white")
        lichess_black_games == Get(lichess, "black")
        lichess_draw_games == Get(lichess, "draws")
        lichess_total_games ==
            TotalGames(lichess_white_games, lichess_black_games, lichess_draw_games)
    IN  [epd |-> epd,
         master_games |-> master_total_games,
         master_white_win |-> calc_percentage(master_white_games, master_total_games),
         master_black_win |-> calc_percentage(master_black_games, master_total_games),
         master_draw |-> calc_percentage(master_draw_games, master_total_games),
         lichess_games |-> lichess_total_games,
         lichess_white_win |-> calc_percentage(lichess_white_games, lichess_total_games),
         lichess_black_win |-> calc_percentage(lichess_black_games, lichess_total_games),
         lichess_draw |-> calc_percentage(lichess_draw_games, lichess_total_games)]

-----------------------------------------------------------------------------
(* process_openings.py: main and get_lichess_stats *)

Epds == 1..MaxEpds
Catalogues == UNION {[1..n -> Epds] : n \in 1..MaxRecords}

\* What the two statistics calls of LichessAPI may return: the empty mapping of a
\* failed lookup, or the counters of the position.
Example == [white |-> 40, black |-> 30, draws |-> 30]
SmallMaps == {EmptyMap, Example}

\* Every answer with counters up to MaxGames, each key present or not, and an
\* answer with none of the three keys.
Counters == [white : 0..MaxGames, black : 0..MaxGames, draws : 0..MaxGames]
Restrict(map, keys) == [k \in keys |-> map[k]]
NoCounters == [topGames |-> 0]
WideMaps ==
    {Restrict(c, keys) : c \in Counters, keys \in SUBSET {"white", "black", "draws"}}
        \cup {NoCounters, Example}

\* Stockfish.evaluate_position: a score in centipawns, or an exception.
Scores == {35}

Event(op, rec) == [op |-> op, rec |-> rec]

NoPct == [numerator |-> 0, denominator |-> 0, result |-> NaN]

MainInit ==
    /\ catalogue \in Catalogues
    /\ mpc = "start"
    /\ idx = 0
    /\ evals = << >>
    /\ engine = "created"
    /\ trace = << >>
    /\ master_stats = EmptyMap
    /\ lichess_game_stats = EmptyMap
    /\ results = << >>
    /\ output = << >>
    /\ pct = NoPct

\* `with sf as sf_engine:` is entered (lines 62-71).
EnterEngine ==
    /\ mpc = "start"
    /\ engine' = "entered"
    /\ trace' = Append(trace, Event("enter", 0))
    /\ mpc' = "evals"
    /\ UNCHANGED <<catalogue, idx, evals, master_stats, lichess_game_stats, results,
                   output, pct>>
    /\ UNCHANGED reqVars

\* One row of df.apply: get_eval returns a score (lines 72-74, 132-136).
Evaluate ==
    /\ mpc = "evals"
    /\ idx < Len(catalogue)
    /\ \E score \in Scores : evals' = Append(evals, score)
    /\ trace' = Append(trace, Event("evaluate", idx + 1))
    /\ idx' = idx + 1
    /\ UNCHANGED <<catalogue, mpc, engine, master_stats, lichess_game_stats, results,
                   output, pct>>
    /\ UNCHANGED reqVars

\* One row of df.apply: evaluate_position raises. Nothing in get_eval or main
\* catches it: the with statement exits the engine and main ends. The variant
\* is main without the with statement.
EvaluateRaisesNoExit ==
    /\ mpc = "evals"
    /\ idx < Len(catalogue)
    /\ trace' = Append(trace, Event("evaluate", idx + 1))
    /\ mpc' = "aborted"
    /\ UNCHANGED <<catalogue, idx, evals, engine, master_stats, lichess_game_stats,
                   results, output, pct>>
    /\ UNCHANGED reqVars

EvaluateRaises ==
    /\ mpc = "evals"
    /\ idx < Len(catalogue)
    /\ trace' = trace \o <<Event("evaluate", idx + 1), Event("exit", 0)>>
    /\ engine' = "exited"
    /\ mpc' = "aborted"
    /\ UNCHANGED <<catalogue, idx, evals, master_stats, lichess_game_stats, results,
                   output, pct>>
    /\ UNCHANGED reqVars

\* df.apply is done: the with statement exits, get_lichess_stats is called
\* (lines 71-77, 85-88).
ExitEngine ==
    /\ mpc = "evals"
    /\ idx = Len(catalogue)
    /\ engine' = "exited"
    /\ trace' = Append(trace, Event("exit", 0))
    /\ mpc' = "stats"
    /\ idx' = 0
    /\ UNCHANGED <<catalogue, evals, master_stats, lichess_game_stats, results, output,
                   pct>>
    /\ UNCHANGED reqVars

\* The order in which `for epd in track(epds, ...)` takes the rows (line 89), and
\* a variant that takes them last to first.
trackReversed(n) == [k \in 1..n |-> n + 1 - k]

track(n) == [k \in 1..n |-> k]

\* time.sleep(1.001); api.get_masters_stats(epd) (lines 91-92).
MasterStats(maps) ==
    /\ mpc = "stats"
    /\ idx < Len(catalogue)
    /\ \E m \in maps : master_stats' = m
    /\ trace' = trace \o <<Event("sleep", track(Len(catalogue))[idx + 1]),
                           Event("master", track(Len(catalogue))[idx + 1])>>
    /\ mpc' = "stats2"
    /\ UNCHANGED <<catalogue, idx, evals, engine, lichess_game_stats, results, output,
                   pct>>
    /\ UNCHANGED reqVars

\* time.sleep(1.001); api.get_opening_stats(epd); the row is appended
\* (lines 93-118). The variant is the loop without line 93.
CommunityStatsNoSleep(maps) ==
    /\ mpc = "stats2"
    /\ lichess_game_stats' \in maps
    /\ results' = Append(results,
                         StatsRow(catalogue[track(Len(catalogue))[idx + 1]],
                                  master_stats, lichess_game_stats'))
    /\ trace' = Append(trace, Event("community", track(Len(catalogue))[idx + 1]))
    /\ idx' = idx + 1
    /\ mpc' = "stats"
    /\ UNCHANGED <<catalogue, evals, engine, master_stats, output, pct>>
    /\ UNCHANGED reqVars

CommunityStats(maps) ==
    /\ mpc = "stats2"
    /\ lichess_game_stats' \in maps
    /\ results' = Append(results,
                         StatsRow(catalogue[track(Len(catalogue))[idx + 1]],
                                  master_stats, lichess_game_stats'))
    /\ trace' = trace \o <<Event("sleep", track(Len(catalogue))[idx + 1]),
                           Event("community", track(Len(catalogue))[idx + 1])>>
    /\ idx' = idx + 1
    /\ mpc' = "stats"
    /\ UNCHANGED <<catalogue, evals, engine, master_stats, output, pct>>
    /\ UNCHANGED reqVars

\* df.merge(right=lichess_stats, how="left", left_on="epd", right_on="epd"): for
\* each left row in order, one row per right row with the same epd (line 78).
\* The variant is how="cross".
RECURSIVE MergeCross(_, _)
MergeCross(left, right) ==
    IF left = << >> THEN << >>
    ELSE LET l == Head(left)
         IN  [i \in 1..Len(right) |-> [row |-> l.row, epd |-> l.epd, eval |-> l.eval,
                                         stats |-> right[i]]]
               \o MergeCross(Tail(left), right)

RECURSIVE MergeLeft(_, _)
MergeLeft(left, right) ==
    IF left = << >> THEN << >>
    ELSE LET l == Head(left)
             Match(rw) == rw.epd = l.epd
             matches == SelectSeq(right, Match)
         IN  [i \in 1..Len(matches) |-> [row |-> l.row, epd |-> l.epd, eval |-> l.eval,
                                           stats |-> matches[i]]]
               \o MergeLeft(Tail(left), right)

\* df with its eval column: row stands for the row's other columns.
Frame == [i \in 1..Len(catalogue) |-> [row |-> i, epd |-> catalogue[i], eval |-> evals[i]]]

\* get_lichess_stats returns; merge and df.to_csv (lines 120, 78-82). The
\* variant writes as soon as the evaluations are done.
MergeAndWriteEarly ==
    /\ mpc = "stats"
    /\ output' = MergeLeft(Frame, results)
    /\ trace' = Append(trace, Event("write", 0))
    /\ mpc' = "done"
    /\ UNCHANGED <<catalogue, idx, evals, engine, master_stats, lichess_game_stats,
                   results, pct>>
    /\ UNCHANGED reqVars

MergeAndWrite ==
    /\ mpc = "stats"
    /\ idx = Len(catalogue)
    /\ output' = MergeLeft(Frame, results)
    /\ trace' = Append(trace, Event("write", 0))
    /\ mpc' = "done"
    /\ UNCHANGED <<catalogue, idx, evals, engine, master_stats, lichess_game_stats,
                   results, pct>>
    /\ UNCHANGED reqVars

\* A direct call calc_percentage(numerator, denominator).
CalcPercentage ==
    /\ mpc = "stats"
    /\ idx = 0
    /\ pct = NoPct
    /\ \E numerator \in 0..MaxGames, denominator \in 0..MaxGames :
         pct' = [numerator |-> numerator, denominator |-> denominator,
                 result |-> calc_percentage(numerator, denominator)]
    /\ mpc' = "called"
    /\ UNCHANGED <<catalogue, idx, evals, engine, trace, master_stats,
                   lichess_game_stats, results, output>>
    /\ UNCHANGED reqVars

-----------------------------------------------------------------------------
(* Specifications *)

\* Network requests issued so far by the current call.
requests == Len(outcomes)

\* Spec: one Requester and the get_json calls made on it.
Init ==
    /\ RequesterInit
    /\ MainInit
    /\ catalogue = <<1>>

Next ==
    \/ GetJsonCall
    \/ WaitRateLimitTimeout
    \/ GetTransportError
    \/ GetTooManyRequests
    \/ GetOther
    \/ AfterLoop

Spec == Init /\ [][Next]_vars

\* SpecMain: one run of main over a catalogue.
NextMain ==
    \/ EnterEngine
    \/ Evaluate
    \/ EvaluateRaises
    \/ ExitEngine
    \/ MasterStats(SmallMaps)
    \/ CommunityStats(SmallMaps)
    \/ MergeAndWrite

InitMain ==
    /\ RequesterInit
    /\ rate_limit_attempts = DefaultRateLimitAttempts
    /\ MainInit

SpecMain == InitMain /\ [][NextMain]_vars

\* SpecStats: get_lichess_stats on one row whatever the two answers are (one of
\* the two drawn from WideMaps), and calc_percentage called directly.
InitStats ==
    /\ RequesterInit
    /\ rate_limit_attempts = DefaultRateLimitAttempts
    /\ catalogue \in [1..1 -> Epds]
    /\ mpc = "stats"
    /\ idx = 0
    /\ evals = << >>
    /\ engine = "created"
    /\ trace = << >>
    /\ master_stats = EmptyMap
    /\ lichess_game_stats = EmptyMap
    /\ results = << >>
    /\ output = << >>
    /\ pct = NoPct

OtherMaps == IF master_stats \in SmallMaps THEN WideMaps ELSE SmallMaps

NextStats ==
    \/ MasterStats(WideMaps)
    \/ CommunityStats(OtherMaps)
    \/ CalcPercentage

SpecStats == InitStats /\ [][NextStats]_vars

-----------------------------------------------------------------------------
(* Properties of Requester *)

\* A get_json call has been made and has ended.
CallEnded == pc = "idle" /\ ret.kind # "none"

Is429(o) == o.status = TOO_MANY_REQUESTS
IsTransportError(o) == o = RequestError
IsJsonOk(o) == o.status = OK /\ Decodable(o.body)
LastOutcome == outcomes[Len(outcomes)]
All429(n) == \A i \in 1..n : Is429(outcomes[i])

\* The call ended in a transport error, a non-200 final status or a decode failure.
EndedInFailure ==
    /\ outcomes # << >>
    /\ \/ IsTransportError(LastOutcome)
       \/ LastOutcome.status # OK
       \/ ~Decodable(LastOutcome.body)

Keys == {"white", "black", "draws"}
IsMapping(v) == DOMAIN v \subseteq Keys

\* C1: with a retry budget of at least 1, whatever the outcomes of the GETs were,
\* an ended get_json call has returned (not raised) a mapping, and the mapping is
\* empty when the call ended in a transport error, a non-200 final status or a
\* decode failure.
C1_NeverRaises ==
    (rate_limit_attempts >= 1 /\ CallEnded) =>
        /\ ret.kind = "return"
        /\ IsMapping(ret.val)
        /\ EndedInFailure => ret.val = EmptyMap

\* C1 witness: a call that was throttled once and then got a 200 with an
\* undecodable body has ended.
C1_Witness ==
    /\ CallEnded
    /\ Len(outcomes) = 2
    /\ Is429(outcomes[1])
    /\ LastOutcome.status = OK /\ ~Decodable(LastOutcome.body)

\* C2: k consecutive 429 answers with k below the budget do not end the call, and
\* when a 200 with a JSON body follows them the call returns the decoded body
\* after exactly k+1 requests and leaves the client Normal.
C2_RetryThenSuccess ==
    /\ (outcomes # << >> /\ All429(Len(outcomes)) /\ Len(outcomes) < rate_limit_attempts)
          => pc \in {"wait", "get"}
    /\ \A k \in 0..MaxAttempts :
         (/\ CallEnded
          /\ k < rate_limit_attempts
          /\ Len(outcomes) > k
          /\ All429(k)
          /\ IsJsonOk(outcomes[k + 1]))
            => /\ requests = k + 1
               /\ ret = Returned(json(outcomes[k + 1].body))
               /\ rate_limited = FALSE

\* C2 witness: [429, 429, 200] with budget 3 has ended with the decoded body.
C2_Witness ==
    /\ CallEnded
    /\ rate_limit_attempts = DefaultRateLimitAttempts
    /\ Len(outcomes) = 3
    /\ All429(2)
    /\ IsJsonOk(outcomes[3])
    /\ ret.val = [white |-> 4, black |-> 3, draws |-> 3]

\* C3: a call never issues more requests than the budget, and a call whose
\* every request was answered 429 ends after exactly rate_limit_attempts requests
\* by returning the empty mapping.
C3_ExhaustedRetries ==
    /\ requests <= rate_limit_attempts
    /\ (CallEnded /\ outcomes # << >> /\ All429(Len(outcomes)))
          => /\ requests = rate_limit_attempts
             /\ ret = Returned(EmptyMap)

\* C3 witness: three 429 answers with the default budget of 3, call ended.
C3_Witness ==
    /\ CallEnded
    /\ rate_limit_attempts = DefaultRateLimitAttempts
    /\ Len(outcomes) = 3
    /\ All429(3)

\* C4: a transport error is always the last request of its call, and the call
\* has then ended by returning the empty mapping.
C4_TransportErrorTerminal ==
    \A i \in 1..Len(outcomes) :
        IsTransportError(outcomes[i]) =>
            /\ i = Len(outcomes)
            /\ pc = "idle"
            /\ ret = Returned(EmptyMap)

\* C4 witness: a transport error on the attempt after a 429, budget not used up.
C4_Witness ==
    /\ Len(outcomes) = 2
    /\ Is429(outcomes[1])
    /\ IsTransportError(outcomes[2])
    /\ rate_limit_attempts > 2
    /\ pc = "idle"

-----------------------------------------------------------------------------
(* Properties of main and get_lichess_stats *)

IsCall(ev) == ev.op \in {"evaluate", "master", "community"}
IsEvaluate(ev) == ev.op = "evaluate"
IsEnter(ev) == ev.op = "enter"
IsExit(ev) == ev.op = "exit"

\* The evaluate and statistics calls made so far, in order.
Calls == SelectSeq(trace, IsCall)
IsPrefix(x, y) == Len(x) <= Len(y) /\ x = SubSeq(y, 1, Len(x))

RunEnded == mpc \in {"done", "aborted"}
\* An evaluate call was made that produced no value.
EvalFailed == Len(SelectSeq(trace, IsEvaluate)) > Len(evals)

\* Every evaluate call row by row, then master and community call row by row.
TwoPasses(n) ==
    [i \in 1..n |-> Event("evaluate", i)]
        \o [k \in 1..(2 * n) |-> IF k % 2 = 1 THEN Event("master", (k + 1) \div 2)
                                             ELSE Event("community", k \div 2)]

\* C5 as stated: between the evaluate call and the community-stats call of one
\* record there is no evaluate or statistics call of another record.
C5_NoInterleaving ==
    \A a \in 1..Len(trace), c \in 1..Len(trace) :
        (/\ a < c
         /\ trace[a].op = "evaluate"
         /\ trace[c].op = "community"
         /\ trace[a].rec = trace[c].rec)
          => \A b \in (a + 1)..(c - 1) : IsCall(trace[b]) => trace[b].rec = trace[a].rec

\* C5 amended: the evaluate calls of all records are made first, in catalogue
\* order, and then record by record, in catalogue order, the master-stats call
\* directly followed by the community-stats call of the same record.
C5_TwoPassOrder == IsPrefix(Calls, TwoPasses(Len(catalogue)))

\* C5 witness: a run over two records has made all its calls.
C5_Witness == mpc = "done" /\ Len(catalogue) = 2 /\ Len(Calls) = 6

\* C6: an evaluation that raises does not end the run: the other records are
\* still evaluated and enriched and the output is written.
C6_EvalFailureIsolated ==
    EvalFailed =>
        /\ mpc # "aborted"
        /\ mpc = "done" => /\ Len(evals) = Len(catalogue)
                           /\ Len(results) = Len(catalogue)
                           /\ output # << >>

Distinct(seq) == \A i \in 1..Len(seq), j \in 1..Len(seq) : seq[i] = seq[j] => i = j

OneRowPerInput ==
    /\ Len(output) = Len(catalogue)
    /\ \A i \in 1..Len(output) :
         /\ output[i].row = i
         /\ output[i].epd = catalogue[i]
         /\ output[i].stats.epd = catalogue[i]

\* C7 as stated: whatever the catalogue, the written table has exactly one row
\* per input row, in input order.
C7_OneRowPerInputAlways == mpc = "done" => OneRowPerInput

\* C7 amended: for a catalogue whose epd keys are pairwise distinct, the written
\* table has exactly one row per input row, in input order.
C7_OneRowPerDistinctInput == (mpc = "done" /\ Distinct(catalogue)) => OneRowPerInput

\* C7 witness: two rows with distinct keys are written, one of them with both
\* statistics answers empty.
C7_Witness ==
    /\ mpc = "done"
    /\ Len(catalogue) = 2
    /\ Distinct(catalogue)
    /\ output[1].stats.master_games = 0
    /\ output[1].stats.lichess_games = 0
    /\ output[2].stats.master_games > 0

\* C8: the engine is entered at most once and exited at most once, every evaluate
\* call is made after the enter and before the exit, and a run that has ended,
\* normally or by an evaluation that raised, has entered and exited exactly once.
C8_EngineScope ==
    /\ Len(SelectSeq(trace, IsEnter)) <= 1
    /\ Len(SelectSeq(trace, IsExit)) <= 1
    /\ \A k \in 1..Len(trace) :
         IsEvaluate(trace[k]) =>
            /\ \E a \in 1..(k - 1) : IsEnter(trace[a])
            /\ \A b \in 1..(k - 1) : ~IsExit(trace[b])
    /\ mpc = "evals" => engine = "entered"
    /\ RunEnded => /\ Len(SelectSeq(trace, IsEnter)) = 1
                   /\ Len(SelectSeq(trace, IsExit)) = 1
                   /\ engine = "exited"

\* C8 witness: the evaluation of the second record raised and the run has ended.
C8_Witness == mpc = "aborted" /\ Len(evals) = 1 /\ EvalFailed

-----------------------------------------------------------------------------
(* Properties of the statistics row and of calc_percentage *)

CounterKeys == {"white", "black", "draws"}
NoCounterKeys(map) == DOMAIN map \cap CounterKeys = {}

\* A row has been emitted for the answers held in master_stats and
\* lichess_game_stats.
RowEmitted == mpc = "stats" /\ idx > 0 /\ Len(results) = idx
LastRow == results[Len(results)]

\* C9: an answer that is empty or has none of the three keys still gives a row,
\* with a games total of 0 and three percentages of 0.0 for that source, and
\* calc_percentage returns 0.0 whenever the denominator is 0.
C9_ZeroGames ==
    /\ (mpc = "stats2" \/ mpc = "stats") => Len(results) = idx
    /\ RowEmitted =>
         /\ NoCounterKeys(master_stats) =>
              /\ LastRow.master_games = 0
              /\ LastRow.master_white_win = Float0
              /\ LastRow.master_black_win = Float0
              /\ LastRow.master_draw = Float0
         /\ NoCounterKeys(lichess_game_stats) =>
              /\ LastRow.lichess_games = 0
              /\ LastRow.lichess_white_win = Float0
              /\ LastRow.lichess_black_win = Float0
              /\ LastRow.lichess_draw = Float0
    /\ (mpc = "called" /\ pct.denominator = 0) => pct.result = Float0

\* C9 witness: a row for a master answer without the three keys and a community
\* answer with games.
C9_Witness ==
    /\ RowEmitted
    /\ master_stats = NoCounters
    /\ LastRow.master_games = 0
    /\ LastRow.lichess_games > 0

Float100 == FloatOfInt(100)
Sum3(x, y, z) == FloatAdd(FloatAdd(x, y), z)

\* |p * total - 100 * counter| <= 2^-51 * 100 * counter: p is counter / total * 100
\* up to the rounding of the division and of the multiplication.
IsPercentageOf(p, counter, total) ==
    IF counter = 0 THEN p = Float0
    ELSE /\ p.e < 0
         /\ LET x == MulSmall(p.m, total)
                t == ShiftLeft(NatToLimbs(100 * counter), -p.e)
            IN  LeqLimbs(ShiftLeft(AbsDiff(x, t), 51), t)

\* |x - 100| <= 2^-44
NearHundred(x) ==
    /\ x.e < 0 /\ x.e >= -60
    /\ LET u == IF x.e < -44 THEN x.e ELSE -44
       IN  LeqLimbs(AbsDiff(ShiftLeft(x.m, x.e - u), ShiftLeft(NatToLimbs(100), -u)),
                    ShiftLeft(<<1>>, -44 - u))

\* C10 as stated: the total is white + black + draws, and when it is greater than
\* 0 the three percentages of the source sum to 100.
SumsTo100(map, games, white_win, black_win, draw) ==
    /\ games = Get(map, "white") + Get(map, "black") + Get(map, "draws")
    /\ games > 0 => Sum3(white_win, black_win, draw) = Float100

C10_SumTo100 ==
    RowEmitted =>
        /\ SumsTo100(master_stats, LastRow.master_games, LastRow.master_white_win,
                     LastRow.master_black_win, LastRow.master_draw)
        /\ SumsTo100(lichess_game_stats, LastRow.lichess_games, LastRow.lichess_white_win,
                     LastRow.lichess_black_win, LastRow.lichess_draw)

\* C10 amended: the total is white + black + draws, each percentage is its
\* counter divided by the total times 100 up to a relative rounding error of
\* 2^-51, when the total is greater than 0 the float sum of the three
\* percentages is within 2^-44 of 100, and counters 40/30/30 give 100 games and
\* exactly 40.0, 30.0, 30.0.
PercentagesOf(map, games, white_win, black_win, draw) ==
    /\ games = Get(map, "white") + Get(map, "black") + Get(map, "draws")
    /\ games > 0 =>
         /\ IsPercentageOf(white_win, Get(map, "white"), games)
         /\ IsPercentageOf(black_win, Get(map, "black"), games)
         /\ IsPercentageOf(draw, Get(map, "draws"), games)
         /\ NearHundred(Sum3(white_win, black_win, draw))
    /\ map = Example =>
         /\ games = 100
         /\ white_win = FloatOfInt(40)
         /\ black_win = FloatOfInt(30)
         /\ draw = FloatOfInt(30)

C10_Percentages ==
    RowEmitted =>
        /\ PercentagesOf(master_stats, LastRow.master_games, LastRow.master_white_win,
                         LastRow.master_black_win, LastRow.master_draw)
        /\ PercentagesOf(lichess_game_stats, LastRow.lichess_games,
                         LastRow.lichess_white_win, LastRow.lichess_black_win,
                         LastRow.lichess_draw)

\* C10 witness: a row for master counters 1/1/1, whose percentages do not sum to
\* exactly 100.0, and community counters 40/30/30.
C10_Witness ==
    /\ RowEmitted
    /\ master_stats = [white |-> 1, black |-> 1, draws |-> 1]
    /\ Sum3(LastRow.master_white_win, LastRow.master_black_win, LastRow.master_draw)
         # Float100
    /\ lichess_game_stats = Example

-----------------------------------------------------------------------------
(* Further properties of Requester *)

\* C11: when the first answer of a call is a 200 whose body decodes as JSON, the
\* call issues no other request and returns exactly the decoded body, which is
\* also what self.response_json holds.
C11_PlainSuccess ==
    (outcomes # << >> /\ IsJsonOk(outcomes[1])) =>
        /\ requests = 1
        /\ pc \in {"after_loop", "idle"}
        /\ pc = "idle" => /\ ret = Returned(json(outcomes[1].body))
                          /\ response_json = json(outcomes[1].body)

\* C11 witness: a call answered at once with 200 and the body of counters 4/3/3
\* has returned these counters.
C11_Witness ==
    /\ CallEnded
    /\ outcomes = <<[status |-> OK, body |-> "{white:4,black:3,draws:3}"]>>
    /\ ret = Returned([white |-> 4, black |-> 3, draws |-> 3])

\* C12: a request is only ever issued with rate_limited = False and at least the
\* cooldown after the time stored in rate_limit_last_timestamp; the time stored
\* on a 429 answer is the time of its receipt; and an attempt that starts with
\* rate_limited = False does not wait. Hence the next request after a 429, in
\* the same call or in a later one, comes no earlier than the cooldown after it.
C12_WaitPolicy ==
    [][/\ pc' = "get" =>
            /\ ~rate_limited'
            /\ now' >= rate_limit_last_timestamp' + DefaultRateLimitTimeout
       /\ (Len(outcomes') = Len(outcomes) + 1 /\ Is429(outcomes'[Len(outcomes')]))
            => rate_limit_last_timestamp' = now'
       /\ (pc = "wait" /\ ~rate_limited) => now' = now]_vars

\* C12 witness: the call before ended throttled, and the first request of the
\* next call is about to be issued exactly one cooldown after that 429.
C12_Witness ==
    /\ pc = "get"
    /\ ncalls = 2
    /\ outcomes = << >>
    /\ previous = Returned(EmptyMap)
    /\ rate_limit_last_timestamp > 1000
    /\ ~rate_limited
    /\ now = rate_limit_last_timestamp + DefaultRateLimitTimeout

IsErrorStatus(o) == o.status \in ErrorStatuses

\* C13: an answer with an error status other than 429 is the last request of its
\* call, the call then returns the empty mapping, and neither the receipt of
\* that answer nor the return changes rate_limited (False) or the timestamp.
C13_ErrorStatusTerminal ==
    [][/\ \A i \in 1..Len(outcomes') :
            IsErrorStatus(outcomes'[i]) =>
                /\ i = Len(outcomes')
                /\ pc' \in {"after_loop", "idle"}
                /\ pc' = "idle" => ret' = Returned(EmptyMap)
       /\ (outcomes' # << >> /\ IsErrorStatus(outcomes'[Len(outcomes')])) =>
            /\ ~rate_limited'
            /\ UNCHANGED <<rate_limited, rate_limit_last_timestamp>>]_vars

\* C13 witness: a call was throttled once, then answered 500, and has ended
\* after these two requests with one attempt of its budget left.
C13_Witness ==
    /\ CallEnded
    /\ rate_limit_attempts = DefaultRateLimitAttempts
    /\ Len(outcomes) = 2
    /\ Is429(outcomes[1])
    /\ outcomes[2].status = 500
    /\ rate_limit_last_timestamp > 1000

\* C16: after a call has ended, rate_limited is True exactly when the last
\* outcome of the call was a 429, and then every request of the call was answered
\* 429 and the budget is used up; after a 200 (decodable or not), a transport
\* error or another error status it is False.
C16_LimitedIffLast429 ==
    CallEnded =>
        /\ rate_limited <=> (outcomes # << >> /\ Is429(LastOutcome))
        /\ (outcomes # << >> /\ Is429(LastOutcome)) =>
             /\ requests = rate_limit_attempts
             /\ All429(Len(outcomes))

\* C16 witness: the second call on a client ended throttled on each of its three
\* attempts, after a first call that returned counters, and the client is
\* Limited.
C16_Witness ==
    /\ CallEnded
    /\ ncalls = 2
    /\ previous.val # EmptyMap
    /\ rate_limit_attempts = DefaultRateLimitAttempts
    /\ All429(Len(outcomes))
    /\ rate_limited

\* C17: with a budget n >= 1 a call issues at most n requests, an ended call has
\* issued at least one, and every request but the last one of a call was
\* answered 429.
C17_RetryOnlyAfter429 ==
    rate_limit_attempts >= 1 =>
        /\ requests <= rate_limit_attempts
        /\ CallEnded => requests >= 1
        /\ \A i \in 1..(Len(outcomes) - 1) : Is429(outcomes[i])

\* C17 witness: a call with budget 3 has ended after 429, 429, 404.
C17_Witness ==
    /\ CallEnded
    /\ rate_limit_attempts = DefaultRateLimitAttempts
    /\ Len(outcomes) = 3
    /\ All429(2)
    /\ outcomes[3].status = 404

\* C18: whatever the calls before it returned, a call that has issued a request
\* and has ended returned the decoded body when its last outcome was a 200 with
\* a JSON body and the empty mapping otherwise, self.response_json holds the
\* same value, and success is True exactly when its last outcome was an answer
\* with status 200.
C18_OwnResponsesOnly ==
    CallEnded =>
        /\ success <=> (outcomes # << >> /\ LastOutcome.status = OK)
        /\ outcomes # << >> =>
             /\ ret = Returned(IF IsJsonOk(LastOutcome) THEN json(LastOutcome.body)
                                                        ELSE EmptyMap)
             /\ response_json = ret.val

\* C18 witness: the first call returned counters, the second call ended in a
\* transport error and returned the empty mapping with success = False.
C18_Witness ==
    /\ CallEnded
    /\ ncalls = 2
    /\ previous.kind = "return" /\ previous.val # EmptyMap
    /\ IsTransportError(LastOutcome)
    /\ ret = Returned(EmptyMap)
    /\ ~success

\* C19: with a retry budget of 0 a call issues no request and returns the empty
\* mapping.
C19_ZeroBudgetReturnsEmpty ==
    (rate_limit_attempts = 0 /\ CallEnded) =>
        /\ requests = 0
        /\ ret = Returned(EmptyMap)

-----------------------------------------------------------------------------
(* Further properties of main and get_lichess_stats *)

IsSleep(ev) == ev.op = "sleep"
IsStatsCall(ev) == ev.op \in {"master", "community"}
IsStatsStep(ev) == IsSleep(ev) \/ IsStatsCall(ev)

\* The sleeps and statistics calls made so far, in order.
StatsSteps == SelectSeq(trace, IsStatsStep)

\* sleep, master-stats call, sleep, community-stats call, record by record.
SleepBeforeEachCall(n) ==
    [k \in 1..(4 * n) |->
        Event(CASE k % 4 = 1 -> "sleep"
                [] k % 4 = 2 -> "master"
                [] k % 4 = 3 -> "sleep"
                [] k % 4 = 0 -> "community",
              (k + 3) \div 4)]

\* C14: whatever the answers were, the sleeps and statistics calls made so far
\* are a prefix of sleep, master-stats, sleep, community-stats for each record in
\* input order, and when get_lichess_stats has returned for N records there were
\* exactly 2N sleeps and 2N statistics calls.
C14_SleepBeforeEachCall ==
    /\ IsPrefix(StatsSteps, SleepBeforeEachCall(Len(catalogue)))
    /\ mpc = "done" =>
         /\ Len(SelectSeq(trace, IsSleep)) = 2 * Len(catalogue)
         /\ Len(SelectSeq(trace, IsStatsCall)) = 2 * Len(catalogue)

\* C14 witness: a run over two records has ended, the first record answered
\* with empty results and the second with counters.
C14_Witness ==
    /\ mpc = "done"
    /\ Len(catalogue) = 2
    /\ results[1].master_games = 0 /\ results[1].lichess_games = 0
    /\ results[2].master_games > 0 /\ results[2].lichess_games > 0
    /\ Len(SelectSeq(trace, IsSleep)) = 4

IsWrite(ev) == ev.op = "write"
Made(op, rec, k) == \E a \in 1..(k - 1) : trace[a] = Event(op, rec)

\* C15: the output is written at most once; when it is written, every record
\* has been evaluated and both statistics calls of every record have returned;
\* nothing is in the output file unless it was written; a run that has ended
\* normally has written once, and a run that aborted has written nothing.
C15_WriteOnceAtEnd ==
    /\ Len(SelectSeq(trace, IsWrite)) <= 1
    /\ \A k \in 1..Len(trace) :
         IsWrite(trace[k]) =>
            /\ Len(evals) = Len(catalogue)
            /\ Len(results) = Len(catalogue)
            /\ \A rec \in 1..Len(catalogue) :
                 /\ Made("evaluate", rec, k)
                 /\ Made("master", rec, k)
                 /\ Made("community", rec, k)
    /\ output # << >> => Len(SelectSeq(trace, IsWrite)) = 1
    /\ mpc = "done" => Len(SelectSeq(trace, IsWrite)) = 1
    /\ mpc = "aborted" => (Len(SelectSeq(trace, IsWrite)) = 0 /\ output = << >>)

\* C15 witness: the last step of a run over two records was the write, of two
\* rows.
C15_Witness ==
    /\ Len(catalogue) = 2
    /\ trace # << >>
    /\ IsWrite(trace[Len(trace)])
    /\ Len(output) = 2

=============================================================================
